---- MODULE Spec2Model ----
(***************************************************************************)
(* Token bucket rate limiter (src/main.go): a TokenBucket guarded by a     *)
(* sync.Mutex, its refill goroutine driven by a time.Ticker and stopped    *)
(* through an unbuffered channel, concurrent Allow callers and Stop        *)
(* callers.                                                                *)
(*                                                                         *)
(* Every statement of refill, Allow and Stop that synchronises or touches  *)
(* tokens is one action.  capacity, tokens and rate are int64 in the       *)
(* source; the model keeps two's-complement wrap-around at a reduced       *)
(* width of IntBits bits, so MaxInt stands for math.MaxInt64 and MinInt    *)
(* for math.MinInt64.  Values far from MaxInt behave as in the source.     *)
(***************************************************************************)
EXTENDS Integers, FiniteSets, Sequences, TLC

\* ------------------------------------------------------------- bounds
\* Width of the signed integer type standing for int64.
IntBits == 4
\* Small capacities and rates tried by the constructor besides MaxInt.
MaxCap == 2
MaxRate == 2
\* interval := 2 * time.Second in main (in seconds); the model is untimed.
DefaultInterval == 2
\* Number of goroutines that call Allow and that call Stop.
NumCallers == 2
NumStoppers == 2
\* Spec explores at most this many Allow calls and applied ticks.
MaxCalls == 3
MaxTicks == 2
\* Capacity and rate of the bucket whose fair runs are explored.
LiveCap == 1
LiveRate == 1

RECURSIVE Pow2(_)
Pow2(n) == IF n = 0 THEN 1 ELSE 2 * Pow2(n - 1)

MaxInt == Pow2(IntBits - 1) - 1
MinInt == 0 - Pow2(IntBits - 1)

\* Two's-complement wrap of a mathematical integer to the signed width.
WrapInt(x) == ((x - MinInt) % Pow2(IntBits)) + MinInt

Min(a, b) == IF a < b THEN a ELSE b

Callers == 1 .. NumCallers
Stoppers == 1 .. NumStoppers

\* Arguments NewTokenBucket is called with.
CapacityValues == (1 .. MaxCap) \cup {MaxInt}
RateValues == (0 .. MaxRate) \cup {MaxInt}
IntervalValues == {DefaultInterval}

\* Owners of the mutex.
Free == <<"free", 0>>
Refill == <<"refill", 0>>
Caller(c) == <<"allow", c>>

VARIABLES
    capacity,     \* tb.capacity
    rate,         \* tb.rate
    interval,     \* tb.interval
    tokens,       \* tb.tokens
    mu,           \* tb.mu: Free, Refill or Caller(c)
    tickerOn,     \* tb.ticker is running (not yet stopped)
    tickerC,      \* number of ticks buffered in tb.ticker.C (capacity 1)
    rpc,          \* position of the refill goroutine
    apc,          \* position of each Allow caller
    ret,          \* value decided by each caller's latest Allow
    spc,          \* position of each Stop caller
    ncalls,       \* history: Allow calls that have decided their result
    nadmits,      \* history: Allow calls that have decided to admit
    nticks,       \* history: ticks applied
    tickBase,     \* history: tokens before the latest tick's addition
    sinceTick,    \* history: Allow calls decided since the latest tick
    stopReturns,  \* history: Stop calls that have returned
    atStop,       \* history: <<tokens, nadmits>> when Stop returned
    added         \* history: sum of the net amounts added by completed ticks

bucket == <<capacity, rate, interval, tokens>>
sync == <<mu, tickerOn, tickerC>>
pcs == <<rpc, apc, spc, ret>>
hist == <<ncalls, nadmits, nticks, tickBase, sinceTick, stopReturns, atStop,
          added>>
vars == <<bucket, sync, pcs, hist>>

\* ------------------------------------------------------- pure steps
\* Mutant: a rate of zero is replaced by the default of one token per tick.
AddRateAtLeastOne(t, r) == WrapInt(t + (IF r > 0 THEN r ELSE 1))

\* tb.tokens += tb.rate on int64.
AddRate(t, r) == WrapInt(t + r)

\* Mutant: the clamp is left out.
CapTokensNoClamp(t, c) == t

\* if tb.tokens > tb.capacity { tb.tokens = tb.capacity }
CapTokens(t, c) == IF t > c THEN c ELSE t

\* Mutant: the test is tb.tokens >= 0.
HasTokenOffByOne(t) == t >= 0

\* The test of Allow: if tb.tokens > 0.
HasToken(t) == t > 0

\* Mutant: an admit consumes two tokens.
TakeTwoTokens(t) == WrapInt(t - 2)

\* tb.tokens-- on int64.
TakeToken(t) == WrapInt(t - 1)

\* ------------------------------------------------------ construction
\* NewTokenBucket(rate, capacity, interval): the bucket starts full, the
\* ticker is armed and the refill goroutine waits in its select.
Init ==
    /\ capacity \in CapacityValues
    /\ rate \in RateValues
    /\ interval \in IntervalValues
    /\ tokens = capacity
    /\ mu = Free
    /\ tickerOn = TRUE
    /\ tickerC = 0
    /\ rpc = "select"
    /\ apc = [c \in Callers |-> "idle"]
    /\ ret = [c \in Callers |-> "none"]
    /\ spc = [s \in Stoppers |-> "idle"]
    /\ ncalls = 0
    /\ nadmits = 0
    /\ nticks = 0
    /\ tickBase = <<>>
    /\ sinceTick = 0
    /\ stopReturns = 0
    /\ atStop = <<>>
    /\ added = 0

\* ------------------------------------------------------------ ticker
\* The runtime's ticker sends on tb.ticker.C, a channel of capacity 1, every
\* interval while the ticker runs; a tick that finds the buffer full is
\* dropped.
TickerFire ==
    /\ tickerOn
    /\ tickerC = 0
    /\ tickerC' = 1
    /\ UNCHANGED <<bucket, mu, tickerOn, pcs, hist>>

\* ------------------------------------------------------------ refill
\* case <-tb.ticker.C:
RefillRecvTick ==
    /\ rpc = "select"
    /\ tickerC = 1
    /\ tickerC' = 0
    /\ rpc' = "lock"
    /\ UNCHANGED <<bucket, mu, tickerOn, apc, spc, ret, hist>>

\* Mutant: the refill goroutine updates tokens without taking the mutex.
RefillLockNoWait ==
    /\ rpc = "lock"
    /\ mu' = Refill
    /\ rpc' = "add"
    /\ UNCHANGED <<bucket, tickerOn, tickerC, apc, spc, ret, hist>>

\* tb.mu.Lock()
RefillLock ==
    /\ rpc = "lock"
    /\ mu = Free
    /\ mu' = Refill
    /\ rpc' = "add"
    /\ UNCHANGED <<bucket, tickerOn, tickerC, apc, spc, ret, hist>>

\* tb.tokens += tb.rate
RefillAddStep ==
    /\ rpc = "add"
    /\ tokens' = AddRate(tokens, rate)
    /\ rpc' = "cap"
    /\ UNCHANGED <<capacity, rate, interval, sync, apc, spc, ret>>

RefillAdd ==
    /\ RefillAddStep
    /\ nticks' = nticks + 1
    /\ tickBase' = <<tokens>>
    /\ sinceTick' = 0
    /\ UNCHANGED <<ncalls, nadmits, stopReturns, atStop, added>>

\* Mutant: the clamp assigns the other way round, tb.capacity = tb.tokens.
RefillCapRaisesCapacity ==
    /\ rpc = "cap"
    /\ capacity' = IF tokens > capacity THEN tokens ELSE capacity
    /\ rpc' = "unlock"
    /\ UNCHANGED <<tokens, rate, interval, sync, apc, spc, ret>>

\* if tb.tokens > tb.capacity { tb.tokens = tb.capacity }
RefillCapStep ==
    /\ rpc = "cap"
    /\ tokens' = CapTokens(tokens, capacity)
    /\ rpc' = "unlock"
    /\ UNCHANGED <<capacity, rate, interval, sync, apc, spc, ret>>

\* The tick is complete: its net amount is what tokens gained over tickBase.
RefillCap ==
    /\ RefillCapStep
    /\ added' = added + (tokens' - tickBase[1])
    /\ UNCHANGED <<ncalls, nadmits, nticks, tickBase, sinceTick, stopReturns,
                   atStop>>

\* log.Printf(...); tb.mu.Unlock()
RefillUnlock ==
    /\ rpc = "unlock"
    /\ mu' = Free
    /\ rpc' = "select"
    /\ UNCHANGED <<bucket, tickerOn, tickerC, apc, spc, ret, hist>>

\* Mutant: the select prefers a tick that is ready to the stop signal.
RefillRecvStopAfterTicks(s) ==
    /\ rpc = "select"
    /\ tickerC = 0
    /\ spc[s] = "send"
    /\ rpc' = "stopTicker"
    /\ spc' = [spc EXCEPT ![s] = "idle"]
    /\ UNCHANGED <<bucket, sync, apc, ret>>

\* Mutant: the stop signal is also taken while a received tick waits for
\* the mutex, and that tick is abandoned.
RefillRecvStopMidTick(s) ==
    /\ rpc \in {"select", "lock"}
    /\ spc[s] = "send"
    /\ rpc' = "stopTicker"
    /\ spc' = [spc EXCEPT ![s] = "idle"]
    /\ UNCHANGED <<bucket, sync, apc, ret>>

\* case <-tb.stop: the receive meets the send of Stop caller s on the
\* unbuffered channel, and that Stop call returns.
RefillRecvStopStep(s) ==
    /\ rpc = "select"
    /\ spc[s] = "send"
    /\ rpc' = "stopTicker"
    /\ spc' = [spc EXCEPT ![s] = "idle"]
    /\ UNCHANGED <<bucket, sync, apc, ret>>

RefillRecvStop(s) ==
    /\ RefillRecvStopStep(s)
    /\ stopReturns' = stopReturns + 1
    /\ atStop' = <<tokens, nadmits>>
    /\ UNCHANGED <<ncalls, nadmits, nticks, tickBase, sinceTick, added>>

\* Mutant: break instead of return, which leaves the select only and loops.
RefillStopTickerLoops ==
    /\ rpc = "stopTicker"
    /\ tickerOn' = FALSE
    /\ rpc' = "select"
    /\ UNCHANGED <<bucket, mu, tickerC, apc, spc, ret, hist>>

\* tb.ticker.Stop(); return
RefillStopTicker ==
    /\ rpc = "stopTicker"
    /\ tickerOn' = FALSE
    /\ rpc' = "exited"
    /\ UNCHANGED <<bucket, mu, tickerC, apc, spc, ret, hist>>

\* ------------------------------------------------------------- Allow
\* A goroutine calls tb.Allow().
AllowCall(c) ==
    /\ apc[c] = "idle"
    /\ apc' = [apc EXCEPT ![c] = "lock"]
    /\ UNCHANGED <<bucket, sync, rpc, spc, ret, hist>>

\* Mutant: Allow enters its body without waiting for the mutex.
AllowLockNoWait(c) ==
    /\ apc[c] = "lock"
    /\ mu' = Caller(c)
    /\ apc' = [apc EXCEPT ![c] = "test"]
    /\ UNCHANGED <<bucket, tickerOn, tickerC, rpc, spc, ret, hist>>

\* tb.mu.Lock(); defer tb.mu.Unlock()
AllowLock(c) ==
    /\ apc[c] = "lock"
    /\ mu = Free
    /\ mu' = Caller(c)
    /\ apc' = [apc EXCEPT ![c] = "test"]
    /\ UNCHANGED <<bucket, tickerOn, tickerC, rpc, spc, ret, hist>>

\* Mutant: the test releases the mutex before the decrement is made.
AllowTestDropsLock(c) ==
    /\ apc[c] = "test"
    /\ IF HasToken(tokens)
       THEN /\ apc' = [apc EXCEPT ![c] = "take"]
            /\ ret' = ret
            /\ mu' = Free
       ELSE /\ apc' = [apc EXCEPT ![c] = "unlock"]
            /\ ret' = [ret EXCEPT ![c] = "false"]
            /\ mu' = mu
    /\ UNCHANGED <<bucket, tickerOn, tickerC, rpc, spc>>

\* if tb.tokens > 0 { ... } return false: the test reads tb.tokens; with
\* no token the call decides to return false.
AllowTestStep(c) ==
    /\ apc[c] = "test"
    /\ IF HasToken(tokens)
       THEN /\ apc' = [apc EXCEPT ![c] = "take"]
            /\ ret' = ret
       ELSE /\ apc' = [apc EXCEPT ![c] = "unlock"]
            /\ ret' = [ret EXCEPT ![c] = "false"]
    /\ UNCHANGED <<bucket, sync, rpc, spc>>

AllowTest(c) ==
    /\ AllowTestStep(c)
    /\ IF apc'[c] = "unlock"
       THEN /\ ncalls' = ncalls + 1
            /\ sinceTick' = sinceTick + 1
       ELSE UNCHANGED <<ncalls, sinceTick>>
    /\ UNCHANGED <<nadmits, nticks, tickBase, stopReturns, atStop, added>>

\* Mutant: the admitting branch returns true without the decrement.
AllowTakeKeepsToken(c) ==
    /\ apc[c] = "take"
    /\ ret' = [ret EXCEPT ![c] = "true"]
    /\ apc' = [apc EXCEPT ![c] = "unlock"]
    /\ UNCHANGED <<bucket, sync, rpc, spc>>

\* tb.tokens--; return true
AllowTakeStep(c) ==
    /\ apc[c] = "take"
    /\ tokens' = TakeToken(tokens)
    /\ ret' = [ret EXCEPT ![c] = "true"]
    /\ apc' = [apc EXCEPT ![c] = "unlock"]
    /\ UNCHANGED <<capacity, rate, interval, sync, rpc, spc>>

AllowTake(c) ==
    /\ AllowTakeStep(c)
    /\ ncalls' = ncalls + 1
    /\ nadmits' = nadmits + 1
    /\ sinceTick' = sinceTick + 1
    /\ UNCHANGED <<nticks, tickBase, stopReturns, atStop, added>>

\* Mutant: Allow returns without the deferred Unlock.
AllowReturnsLocked(c) ==
    /\ apc[c] = "unlock"
    /\ apc' = [apc EXCEPT ![c] = "idle"]
    /\ UNCHANGED <<bucket, sync, rpc, spc, ret, hist>>

\* The deferred tb.mu.Unlock() runs and Allow returns ret[c].
AllowUnlock(c) ==
    /\ apc[c] = "unlock"
    /\ mu' = Free
    /\ apc' = [apc EXCEPT ![c] = "idle"]
    /\ UNCHANGED <<bucket, tickerOn, tickerC, rpc, spc, ret, hist>>

\* -------------------------------------------------------------- Stop
\* A goroutine calls tb.Stop() and blocks in tb.stop <- true.
StopCall(s) ==
    /\ spc[s] = "idle"
    /\ spc' = [spc EXCEPT ![s] = "send"]
    /\ UNCHANGED <<bucket, sync, rpc, apc, ret, hist>>

\* ------------------------------------------------------ specification
\* Spec explores the runs with at most MaxCalls Allow calls and at most
\* MaxTicks applied ticks, and records their history.
CallsLeft ==
    ncalls + Cardinality({c \in Callers : apc[c] \in {"lock", "test", "take"}})
        < MaxCalls

TicksLeft == nticks < MaxTicks

Next ==
    \/ TickerFire
    \/ TicksLeft /\ RefillRecvTick
    \/ RefillLock
    \/ RefillAdd
    \/ RefillCap
    \/ RefillUnlock
    \/ \E s \in Stoppers : RefillRecvStop(s)
    \/ RefillStopTicker
    \/ \E c \in Callers : CallsLeft /\ AllowCall(c)
    \/ \E c \in Callers : AllowLock(c)
    \/ \E c \in Callers : AllowTest(c)
    \/ \E c \in Callers : AllowTake(c)
    \/ \E c \in Callers : AllowUnlock(c)
    \/ \E s \in Stoppers : StopCall(s)

Spec == Init /\ [][Next]_vars

\* The same program with no bound on calls and ticks, under the scheduling
\* the Go runtime provides; of the history only the return of Stop is kept.
LiveStep ==
    \/ TickerFire
    \/ RefillRecvTick
    \/ RefillLock
    \/ RefillAddStep /\ UNCHANGED hist
    \/ RefillCapStep /\ UNCHANGED hist
    \/ RefillUnlock
    \/ \E s \in Stoppers : RefillRecvStop(s)
    \/ RefillStopTicker
    \/ \E c \in Callers : AllowLock(c)
    \/ \E c \in Callers : AllowTestStep(c) /\ UNCHANGED hist
    \/ \E c \in Callers : AllowTakeStep(c) /\ UNCHANGED hist
    \/ \E c \in Callers : AllowUnlock(c)

OneCaller == CHOOSE c \in Callers : TRUE
OneStopper == CHOOSE s \in Stoppers : TRUE

\* Any number of Stop callers beside one goroutine that calls Allow.
NextStops ==
    \/ LiveStep
    \/ AllowCall(OneCaller)
    \/ \E s \in Stoppers : StopCall(s)

\* Any number of Allow callers beside one goroutine that calls Stop.
NextAllows ==
    \/ LiveStep
    \/ \E c \in Callers : AllowCall(c)
    \/ StopCall(OneStopper)

\* A goroutine that can run does run (weak fairness of every step that
\* waits for nothing).  sync.Mutex hands the lock to a waiter that has
\* waited long enough (starvation mode), and select chooses at random
\* among the cases that are ready, so a Lock that is possible again and
\* again and a receive from tb.stop that is possible again and again are
\* eventually taken (strong fairness).  Nothing obliges a caller to call
\* Allow or Stop, nor the ticker to fire.
Fairness ==
    /\ WF_vars(RefillRecvTick)
    /\ SF_vars(RefillLock)
    /\ WF_vars(RefillAddStep /\ UNCHANGED hist)
    /\ WF_vars(RefillCapStep /\ UNCHANGED hist)
    /\ WF_vars(RefillUnlock)
    /\ SF_vars(\E s \in Stoppers : RefillRecvStop(s))
    /\ WF_vars(RefillStopTicker)
    /\ \A c \in Callers : SF_vars(AllowLock(c))
    /\ \A c \in Callers : WF_vars(AllowTestStep(c) /\ UNCHANGED hist)
    /\ \A c \in Callers : WF_vars(AllowTakeStep(c) /\ UNCHANGED hist)
    /\ \A c \in Callers : WF_vars(AllowUnlock(c))

\* Scheduling does not depend on the token arithmetic: the fair runs are
\* explored for one small bucket, on which Allow both admits and rejects.
InitLive ==
    /\ Init
    /\ capacity = LiveCap
    /\ rate = LiveRate

FairStops == InitLive /\ [][NextStops]_vars /\ Fairness
FairAllows == InitLive /\ [][NextAllows]_vars /\ Fairness

\* ------------------------------------------------------------ claims
\* Caller c decides the result of its Allow call in this step.
Decides(c) == apc[c] \in {"test", "take"} /\ apc'[c] = "unlock"

\* Callers whose Allow call has decided a result.
Decided == {c \in Callers : ret[c] # "none"}
Admitted == {c \in Callers : ret[c] = "true"}

\* C1: with capacity > 0 and rate > 0, whenever the mutex is not held,
\* 0 <= tokens <= capacity.
C1_TokensWithinCapacity ==
    (capacity > 0 /\ rate > 0 /\ mu = Free) => (0 <= tokens /\ tokens <= capacity)

\* The same invariant for the buckets whose capacity + rate is representable.
TokensWithinCapacityNoWrap ==
    (capacity > 0 /\ rate > 0 /\ capacity + rate <= MaxInt /\ mu = Free)
        => (0 <= tokens /\ tokens <= capacity)

\* C2: when K callers have each called Allow once on a fresh bucket and no
\* tick has been applied, exactly min(K, capacity) of them are admitted.
C2_ExactlyMinAdmitted ==
    (nticks = 0 /\ ncalls = Cardinality(Decided))
        => Cardinality(Admitted) = Min(Cardinality(Decided), capacity)

C2_Witness ==
    /\ nticks = 0
    /\ ncalls = NumCallers
    /\ Decided = Callers
    /\ capacity < NumCallers
    /\ Cardinality(Admitted) = capacity
    /\ \A c \in Callers : apc[c] = "idle"

\* C3: with no tick applied since construction, the k-th Allow call to
\* decide returns true exactly when k <= capacity: the first capacity calls
\* are admitted and the next one is rejected.
C3_Burst ==
    [][\A c \in Callers :
        (nticks = 0 /\ Decides(c)) => (ret'[c] = "true" <=> ncalls < capacity)]_vars

C3_Witness ==
    /\ nticks = 0
    /\ ncalls = capacity + 1
    /\ nadmits = capacity
    /\ \E c \in Callers : apc[c] = "unlock" /\ ret[c] = "false"

\* C4: after a tick applied to an exhausted bucket (tokens = 0), and until
\* the next tick, the k-th Allow call to decide returns true exactly when
\* k <= min(rate, capacity).
C4_RefillAfterExhaustion ==
    [][\A c \in Callers :
        (tickBase = <<0>> /\ Decides(c))
            => (ret'[c] = "true" <=> sinceTick < Min(rate, capacity))]_vars

C4_Witness ==
    /\ tickBase = <<0>>
    /\ nticks = 1
    /\ rate > 0
    /\ sinceTick = Min(rate, capacity) + 1
    /\ nadmits = capacity + Min(rate, capacity)
    /\ \E c \in Callers : apc[c] = "unlock" /\ ret[c] = "false"

\* C5: once Stop has returned, tokens never exceeds its value at that
\* moment and never increases, no tick is applied, the refill goroutine
\* is on its way out, an Allow call still returns true exactly when it
\* finds tokens > 0, and at most that many further calls are admitted.
C5_NoRefillAfterStop ==
    [][atStop' # <<>> =>
        /\ tokens' <= atStop'[1]
        /\ rpc' \in {"stopTicker", "exited"}
        /\ nadmits' - atStop'[2] <= (IF atStop'[1] > 0 THEN atStop'[1] ELSE 0)
        /\ atStop # <<>> => (tokens' <= tokens /\ nticks' = nticks)
        /\ \A c \in Callers : Decides(c) => (ret'[c] = "true" <=> tokens > 0)]_vars

C5_Witness ==
    /\ atStop # <<>>
    /\ atStop[1] > 0
    /\ tokens = 0
    /\ nadmits - atStop[2] = atStop[1]
    /\ rpc = "exited"
    /\ tickerC = 1
    /\ \E c \in Callers : apc[c] = "idle" /\ ret[c] = "false"

\* C6: an Allow call returns true exactly when it finds tokens > 0 under
\* the mutex; it then takes exactly one token; a call that returns false
\* changes nothing of the bucket; and while a caller holds the mutex
\* nobody else changes tokens.
C6_AllowDecision ==
    [][\A c \in Callers :
        /\ Decides(c) =>
              IF tokens > 0
              THEN ret'[c] = "true" /\ tokens' = tokens - 1
              ELSE /\ ret'[c] = "false"
                   /\ UNCHANGED <<bucket, tickerOn, tickerC, rpc, spc>>
        /\ Decides(c) => UNCHANGED <<capacity, rate, interval>>
        /\ (mu = Caller(c) /\ ~Decides(c)) => tokens' = tokens]_vars

C6_Witness ==
    \E c, d \in Callers :
        /\ apc[c] = "unlock"
        /\ ret[c] = "false"
        /\ ret[d] = "true"
        /\ tokens = 0
        /\ nadmits = capacity
        /\ ncalls = capacity + 1

\* C7: a bucket on which Allow was never called holds exactly capacity
\* tokens once more than capacity/rate ticks have been applied.
C7_IdleBucketFull ==
    (rate > 0 /\ ncalls = 0 /\ mu # Refill /\ nticks * rate > capacity)
        => tokens = capacity

\* The same for the buckets whose capacity + rate is representable.
IdleBucketFullNoWrap ==
    (rate > 0 /\ capacity + rate <= MaxInt /\ ncalls = 0 /\ mu # Refill)
        => tokens = capacity

\* C8: once Stop has been called on a running bucket, the refill goroutine
\* eventually receives the signal, stops the ticker and exits, and a Stop
\* call has returned.
C8_StopEventuallyServiced ==
    ((\E s \in Stoppers : spc[s] = "send") /\ stopReturns = 0)
        ~> (rpc = "exited" /\ ~tickerOn /\ stopReturns = 1)

C8_Witness ==
    /\ rpc = "exited"
    /\ ~tickerOn
    /\ stopReturns = 1
    /\ tickerC = 1
    /\ \A s \in Stoppers : spc[s] = "idle"

\* C9: among the Stop calls made on one bucket exactly one returns: at
\* most one ever does, one eventually does, and a Stop call that is blocked
\* in its send once the refill goroutine has received the signal stays
\* blocked for ever, the goroutine never receiving again.
C9_ExactlyOneStopReturns ==
    /\ [][/\ stopReturns' <= 1
          /\ rpc \in {"stopTicker", "exited"} => rpc' \in {"stopTicker", "exited"}
          /\ \A s \in Stoppers :
               (spc[s] = "send" /\ rpc \in {"stopTicker", "exited"})
                   => spc'[s] = "send"]_vars
    /\ (\E s \in Stoppers : spc[s] = "send") ~> (stopReturns = 1)

C9_Witness ==
    /\ rpc = "exited"
    /\ stopReturns = 1
    /\ \A s \in Stoppers : spc[s] = "send"

\* C10: every Allow call that has started eventually returns, and the
\* mutex is held only by a goroutine inside its critical section, never
\* by one that waits on the ticker or on the stop channel.
C10_AllowAlwaysReturns ==
    /\ \A c \in Callers : (apc[c] # "idle") ~> (apc[c] = "idle")
    /\ [](mu = Refill => rpc \in {"add", "cap", "unlock"})
    /\ [](\A c \in Callers : mu = Caller(c) => apc[c] \in {"test", "take", "unlock"})

C10_Witness ==
    \E c, d \in Callers :
        /\ apc[c] = "lock"
        /\ mu = Caller(d)
        /\ rpc = "exited"
        /\ \E s \in Stoppers : spc[s] = "send"

\* A step of the refill goroutine inside its critical section.
TickStep == rpc \in {"add", "cap"} /\ rpc' # rpc

\* A step of Allow caller c.
AllowStepOf(c) == apc'[c] # apc[c]

\* C11: a tick that has been applied leaves tokens = min(tokens + rate,
\* capacity), tokens being the count before the tick; no Allow caller is
\* inside its critical section while the tick is applied; every step that
\* increases tokens is a step of the tick; and no step of Allow increases
\* tokens.
C11_TickSetsMin ==
    [][/\ (rpc = "cap" /\ rpc' = "unlock")
            => tokens' = Min(tickBase[1] + rate, capacity)
       /\ TickStep => \A c \in Callers : apc[c] \in {"idle", "lock"}
       /\ tokens' > tokens => TickStep
       /\ \A c \in Callers : AllowStepOf(c) => tokens' <= tokens]_vars

\* The same property for the buckets whose capacity + rate is representable.
TickSetsMinNoWrap ==
    [][/\ (capacity + rate <= MaxInt /\ rpc = "cap" /\ rpc' = "unlock")
            => tokens' = Min(tickBase[1] + rate, capacity)
       /\ TickStep => \A c \in Callers : apc[c] \in {"idle", "lock"}
       /\ tokens' > tokens => TickStep
       /\ \A c \in Callers : AllowStepOf(c) => tokens' <= tokens]_vars

\* The number of goroutines inside a critical section on tb.mu.
InCritical ==
    Cardinality({c \in Callers : apc[c] \in {"test", "take", "unlock"}})
        + (IF rpc \in {"add", "cap", "unlock"} THEN 1 ELSE 0)

\* C12: at most one goroutine is inside a critical section on the mutex and
\* it is the one that holds the mutex; every step that writes tokens and
\* every step of Allow that reads tokens is taken by the holder of the
\* mutex; and while an Allow call reads or writes tokens no tick is half
\* applied and tokens does not exceed capacity.
C12_MutualExclusion ==
    /\ [](InCritical <= 1)
    /\ [](rpc \in {"add", "cap", "unlock"} => mu = Refill)
    /\ [](\A c \in Callers : apc[c] \in {"test", "take", "unlock"} => mu = Caller(c))
    /\ [][tokens' # tokens
            => \/ TickStep /\ mu = Refill
               \/ \E c \in Callers :
                     AllowStepOf(c) /\ apc[c] = "take" /\ mu = Caller(c)]_vars
    /\ [](\A c \in Callers :
            apc[c] \in {"test", "take"} => (rpc # "cap" /\ tokens <= capacity))

\* A tick has written tokens + rate > capacity and has not capped it yet,
\* while every Allow caller waits for the mutex.
C12_Witness ==
    /\ rpc = "cap"
    /\ mu = Refill
    /\ tokens > capacity
    /\ \A c \in Callers : apc[c] = "lock"

\* Lifecycle of the bucket, read off the position of the refill goroutine.
Phase ==
    IF rpc = "exited" THEN "Stopped"
    ELSE IF rpc = "stopTicker" THEN "Stopping"
    ELSE "Running"

PhaseRank == IF Phase = "Running" THEN 0 ELSE IF Phase = "Stopping" THEN 1 ELSE 2

\* C13: the lifecycle only moves forward, one phase at a time, through
\* Running, Stopping and Stopped; Stopped is never left; the shutdown
\* signal is taken only in the select, when no tick is being handled; and
\* once it has been taken no tick is received or applied and tokens never
\* grows.
C13_LifecycleForward ==
    [][/\ PhaseRank' >= PhaseRank
       /\ PhaseRank' <= PhaseRank + 1
       /\ Phase = "Stopped" => (rpc' = rpc /\ ~tickerOn /\ ~tickerOn')
       /\ (Phase = "Running" /\ Phase' = "Stopping")
            => (rpc = "select" /\ mu # Refill)
       /\ Phase # "Running"
            => /\ mu # Refill
               /\ tickerC' >= tickerC
               /\ nticks' = nticks
               /\ tokens' <= tokens]_vars

\* The bucket is stopped after ticks and admissions, with a tick left in
\* the ticker's channel that is never applied.
C13_Witness ==
    /\ Phase = "Stopped"
    /\ nticks >= 1
    /\ nadmits >= 1
    /\ tickerC = 1
    /\ tokens < capacity

\* C14: in a bucket built with rate = 0 tokens never grows, at most
\* capacity Allow calls are ever admitted, and once tokens is 0 it stays 0
\* and every Allow call that decides returns false, ticks or not.
C14_ZeroRateDrains ==
    /\ [](rate = 0 => nadmits <= capacity)
    /\ [][rate = 0
            => /\ tokens' <= tokens
               /\ tokens = 0
                    => /\ tokens' = 0
                       /\ \A c \in Callers : Decides(c) => ret'[c] = "false"]_vars

\* A bucket of rate 0 has admitted capacity calls, a tick has been applied
\* to the empty bucket, and a call made after that tick was rejected.
C14_Witness ==
    /\ rate = 0
    /\ tokens = 0
    /\ nadmits = capacity
    /\ tickBase = <<0>>
    /\ mu = Free
    /\ sinceTick >= 1
    /\ \E c \in Callers : ret[c] = "false"

\* C15: the bucket returned by NewTokenBucket is full, with its ticker
\* armed and its refill goroutine in the select; no step of Allow, of a
\* tick or of Stop changes capacity, rate or interval; and neither a step
\* of a Stop call nor the goroutine's handling of the stop signal changes
\* tokens.
C15_FrameOfConfiguration ==
    /\ (tokens = capacity /\ rpc = "select" /\ tickerOn = TRUE /\ mu = Free)
    /\ [][/\ capacity' = capacity
          /\ rate' = rate
          /\ interval' = interval
          /\ (spc' # spc \/ (rpc = "stopTicker" /\ rpc' # rpc))
               => tokens' = tokens]_vars

\* Allow calls, a tick and a Stop have all acted on a bucket built with
\* capacity MaxCap, and the bucket is stopped.
C15_Witness ==
    /\ capacity = MaxCap
    /\ interval = DefaultInterval
    /\ rpc = "exited"
    /\ stopReturns = 1
    /\ nticks >= 1
    /\ ncalls >= 1
    /\ tokens = capacity

\* Ticks that have been applied completely, clamp included.
ProcessedTicks == IF rpc = "cap" THEN nticks - 1 ELSE nticks

\* C16 as stated: in every reachable state the admitted calls plus tokens
\* equal capacity plus the sum of the amounts the processed ticks added
\* after capping, and the admitted calls never exceed capacity + rate *
\* (number of processed ticks).
C16_TokenConservation ==
    /\ nadmits + tokens = capacity + added
    /\ nadmits <= capacity + rate * ProcessedTicks

\* C16 amended: the conservation equation holds in every reachable state
\* in which no tick is between its addition and its clamp, and the bound
\* on the admitted calls holds in every reachable state.
C16_ConservationOutsideTick ==
    /\ rpc # "cap" => nadmits + tokens = capacity + added
    /\ nadmits <= capacity + rate * ProcessedTicks

\* Calls have been admitted before and after a tick whose clamp cut the
\* amount it added below rate.
C16_Witness ==
    /\ rpc = "select"
    /\ nticks >= 1
    /\ added > 0
    /\ added < rate * nticks
    /\ nadmits > capacity
    /\ nadmits + tokens = capacity + added

\* ------------------------------------------------ atomic specification
\* The token count of the atomic bucket: a tick takes effect at its clamp,
\* an Allow call at the step that decides its result.
AbsTokens == IF rpc = "cap" THEN tickBase[1] ELSE tokens

\* Allow as one indivisible step, taken for caller c inside its call.
AtomicAllow(c) ==
    /\ apc[c] \in {"test", "take"}
    /\ IF HasToken(AbsTokens)
       THEN /\ AbsTokens' = TakeToken(AbsTokens)
            /\ ret' = [ret EXCEPT ![c] = "true"]
            /\ nadmits' = nadmits + 1
       ELSE /\ AbsTokens' = AbsTokens
            /\ ret' = [ret EXCEPT ![c] = "false"]
            /\ nadmits' = nadmits
    /\ ncalls' = ncalls + 1
    /\ ProcessedTicks' = ProcessedTicks

\* A tick as one indivisible step, taken while the refill goroutine
\* handles a tick it has received.
AtomicTick ==
    /\ rpc \in {"lock", "add", "cap"}
    /\ AbsTokens' = CapTokens(AddRate(AbsTokens, rate), capacity)
    /\ ProcessedTicks' = ProcessedTicks + 1
    /\ UNCHANGED <<ret, ncalls, nadmits>>

\* A step that the atomic bucket does not see.
AtomicStutter ==
    /\ AbsTokens' = AbsTokens
    /\ ProcessedTicks' = ProcessedTicks
    /\ UNCHANGED <<ret, ncalls, nadmits>>

\* C17: every step of the lock-based bucket is, on the token count and the
\* results of Allow, either no step of the atomic bucket or exactly one
\* atomic Allow of a caller inside its call or one atomic tick; every
\* Allow call and every tick takes effect exactly once, at the step where
\* the call decides and at the tick's clamp; and whenever the mutex is free
\* the token count is the atomic bucket's.
C17_RefinesAtomicBucket ==
    /\ [][/\ AtomicStutter \/ AtomicTick \/ \E c \in Callers : AtomicAllow(c)
          /\ \A c \in Callers : Decides(c) <=> (AtomicAllow(c) /\ AllowStepOf(c))
          /\ (rpc = "cap" /\ rpc' = "unlock") <=> AtomicTick]_vars
    /\ [](mu = Free => AbsTokens = tokens)

\* A caller is about to take a token while the other caller and a received
\* tick both wait for the mutex, after an earlier tick and admission.
C17_Witness ==
    \E c, d \in Callers :
        /\ c # d
        /\ apc[c] = "take"
        /\ apc[d] = "lock"
        /\ rpc = "lock"
        /\ ProcessedTicks >= 1
        /\ nadmits >= 1

\* C18: in a bucket built with positive rate and capacity, the addition
\* of a tick does not wrap: it leaves tokens + rate; the clamp then leaves
\* min(tokens + rate, capacity), tokens being the count before the tick;
\* and 0 <= tokens <= capacity once the tick is complete.
C18_TickAdditionNoWrap ==
    [][(rate > 0 /\ capacity > 0)
        => /\ (rpc = "add" /\ rpc' = "cap") => tokens' = tokens + rate
           /\ (rpc = "cap" /\ rpc' = "unlock")
                => /\ tokens' = Min(tickBase[1] + rate, capacity)
                   /\ 0 <= tokens'
                   /\ tokens' <= capacity]_vars

\* The same property for the buckets whose capacity + rate is representable.
TickAdditionNoWrapInRange ==
    [][(rate > 0 /\ capacity > 0 /\ capacity + rate <= MaxInt)
        => /\ (rpc = "add" /\ rpc' = "cap") => tokens' = tokens + rate
           /\ (rpc = "cap" /\ rpc' = "unlock")
                => /\ tokens' = Min(tickBase[1] + rate, capacity)
                   /\ 0 <= tokens'
                   /\ tokens' <= capacity]_vars

TypeOK ==
    /\ capacity \in CapacityValues
    /\ rate \in RateValues
    /\ tokens \in MinInt .. MaxInt
    /\ mu \in {Free, Refill} \cup {Caller(c) : c \in Callers}
    /\ tickerC \in 0 .. 1
    /\ rpc \in {"select", "lock", "add", "cap", "unlock", "stopTicker", "exited"}
    /\ apc \in [Callers -> {"idle", "lock", "test", "take", "unlock"}]
    /\ ret \in [Callers -> {"none", "true", "false"}]
    /\ spc \in [Stoppers -> {"idle", "send"}]
====
